---- MODULE Spec2Model ----
(***************************************************************************)
(* The resolution-and-caching layer of the mood backend (src/api/index.js):*)
(* fetchItunesPoster with posterCache, GET /mood/podcasts with             *)
(* podcastCache, POST /resolve/music-url with resolveCache.                *)
(*                                                                         *)
(* A JavaScript string is a sequence of UTF-16 code units, written here as *)
(* a sequence of one-character strings; "hs" and "ls" stand for a high and *)
(* a low surrogate code unit.  null/undefined is the one-element sequence  *)
(* Null, whose element occurs in no string.  Each action is one run of a   *)
(* handler between two awaits (the event loop runs it without              *)
(* interleaving).                                                          *)
(***************************************************************************)
EXTENDS Integers, Sequences, FiniteSets, TLC

(* ------------------------------ bounds -------------------------------- *)
\* number of requests the model lets arrive
MaxReq == 2
\* number of times the clock advances
MaxTicks == 2
\* most search terms the term generator returns in the model (the code keeps 5)
MaxTerms == 2

(* ---------------------------- JS values ------------------------------- *)
Null == <<"NULL">>
\* the completion of a call that threw (a rejected promise)
Threw == <<"THROW">>

Str_UPPER == <<"A", "B", "C", "D", "E", "F", "G", "H", "I", "J", "K", "L", "M", "N", "O", "P", "Q", "R", "S", "T", "U", "V", "W", "X", "Y", "Z">>
Str_LOWER == <<"a", "b", "c", "d", "e", "f", "g", "h", "i", "j", "k", "l", "m", "n", "o", "p", "q", "r", "s", "t", "u", "v", "w", "x", "y", "z">>
Str_DIGIT == <<"0", "1", "2", "3", "4", "5", "6", "7", "8", "9">>

Range(s) == {s[i] : i \in 1..Len(s)}

Min(a, b) == IF a < b THEN a ELSE b

\* JS truthiness of a string-or-null value: null, undefined and "" are falsy
Falsy(v) == v = Null \/ v = <<>>

\* a || b
OrElse(a, b) == IF Falsy(a) THEN b ELSE a

\* String(v || "")
StrOrEmpty(v) == IF Falsy(v) THEN <<>> ELSE v

IsSpace(c) == c \in {" ", "\t"}

RECURSIVE TrimStart(_)
TrimStart(s) == IF s # <<>> /\ IsSpace(Head(s)) THEN TrimStart(Tail(s)) ELSE s

RECURSIVE TrimEnd(_)
TrimEnd(s) ==
  IF s # <<>> /\ IsSpace(s[Len(s)]) THEN TrimEnd(SubSeq(s, 1, Len(s) - 1)) ELSE s

\* String.prototype.trim
Trim(s) == TrimEnd(TrimStart(s))

LowerChar(c) ==
  IF \E i \in 1..Len(Str_UPPER) : Str_UPPER[i] = c
  THEN Str_LOWER[CHOOSE i \in 1..Len(Str_UPPER) : Str_UPPER[i] = c]
  ELSE c

\* String.prototype.toLowerCase
ToLowerCase(s) == [i \in 1..Len(s) |-> LowerChar(s[i])]

\* String.prototype.slice(0, n)
Slice0(s, n) == SubSeq(s, 1, Min(n, Len(s)))

\* does pattern p occur in s at index i
MatchAt(s, p, i) == i >= 1 /\ i + Len(p) - 1 <= Len(s) /\ SubSeq(s, i, i + Len(p) - 1) = p

Contains(s, p) == \E i \in 1..Len(s) : MatchAt(s, p, i)

(* ------------------------ encodeURIComponent -------------------------- *)
\* characters encodeURIComponent leaves alone
Unreserved ==
  Range(Str_UPPER) \cup Range(Str_LOWER) \cup Range(Str_DIGIT)
    \cup {"-", "_", ".", "!", "~", "*", "'", "(", ")"}

\* the UTF-8 percent-encoding of the other code units the model uses
PercentOf(c) ==
  CASE c = " "  -> <<"%", "2", "0">>
    [] c = "\t" -> <<"%", "0", "9">>
    [] c = "+"  -> <<"%", "2", "B">>
    [] c = "&"  -> <<"%", "2", "6">>
    [] c = "/"  -> <<"%", "2", "F">>
    [] c = ":"  -> <<"%", "3", "A">>
    [] c = "?"  -> <<"%", "3", "F">>
    [] c = "="  -> <<"%", "3", "D">>
    [] OTHER    -> <<"%", "2", "5">>

\* the surrogate pair hs ls is U+1F600, UTF-8 F0 9F 98 80
Str_PAIR == <<"%", "F", "0", "%", "9", "F", "%", "9", "8", "%", "8", "0">>

\* a lone surrogate makes encodeURIComponent throw URIError
WellFormed(s) ==
  \A i \in 1..Len(s) :
    /\ s[i] = "hs" => (i < Len(s) /\ s[i + 1] = "ls")
    /\ s[i] = "ls" => (i > 1 /\ s[i - 1] = "hs")

\* the encoding of the code unit at index i: a pair is encoded at its high
\* surrogate
EncodeUnit(s, i) ==
  IF s[i] = "hs" THEN Str_PAIR
  ELSE IF s[i] = "ls" THEN <<>>
  ELSE IF s[i] \in Unreserved THEN <<s[i]>>
  ELSE PercentOf(s[i])

\* the encoding of the string value s, Threw for URIError
EncodeValue(s) ==
  LET E[i \in 0..Len(s)] == IF i = 0 THEN <<>> ELSE E[i - 1] \o EncodeUnit(s, i)
  IN IF WellFormed(s) THEN E[Len(s)] ELSE Threw

\* the argument is evaluated once, as a call evaluates it
encodeURIComponent(str) == CHOOSE e \in {EncodeValue(s) : s \in {str}} : TRUE

(* --------------------------- poster helpers --------------------------- *)
POSTER_PLACEHOLDER == <<"h", "t", "t", "p", "s", ":", "/", "/", "d", "u", "m", "m", "y", "i", "m", "a", "g", "e", ".", "c", "o", "m", "/", "6", "0", "0", "x", "6", "0", "0", "/", "1", "1", "1", "/", "f", "f", "f", "&", "t", "e", "x", "t", "=", "N", "o", "+", "C", "o", "v", "e", "r">>

Str_PlaceholderPrefix == <<"h", "t", "t", "p", "s", ":", "/", "/", "d", "u", "m", "m", "y", "i", "m", "a", "g", "e", ".", "c", "o", "m", "/", "6", "0", "0", "x", "6", "0", "0", "/", "1", "1", "1", "/", "f", "f", "f", "&", "t", "e", "x", "t", "=">>
Str_NoCover == <<"N", "o", " ", "C", "o", "v", "e", "r">>
Str_KeySep == <<" ", "-", " ">>
Str_100 == <<"/", "1", "0", "0", "x", "1", "0", "0", "b", "b", ".">>
Str_600 == <<"/", "6", "0", "0", "x", "6", "0", "0", "b", "b", ".">>

\* text.slice(0, 60)
PlaceholderTextLen == 60

\* keyOf without toLowerCase
keyOf_NoLowerCase(title, artist) ==
  Trim(StrOrEmpty(title)) \o Str_KeySep \o Trim(StrOrEmpty(artist))

keyOf(title, artist) ==
  ToLowerCase(Trim(StrOrEmpty(title))) \o Str_KeySep
    \o ToLowerCase(Trim(StrOrEmpty(artist)))

\* url100.replace(/\/100x100bb\./, "/600x600bb."): the first match only
toHiResArtwork(url100) ==
  IF Falsy(url100) THEN Null
  ELSE IF ~Contains(url100, Str_100) THEN url100
  ELSE LET i == CHOOSE j \in 1..Len(url100) :
                  /\ MatchAt(url100, Str_100, j)
                  /\ \A h \in 1..(j - 1) : ~MatchAt(url100, Str_100, h)
       IN SubSeq(url100, 1, i - 1) \o Str_600
            \o SubSeq(url100, i + Len(Str_100), Len(url100))

\* Threw when encodeURIComponent throws
placeholderOfText(text) ==
  LET enc == encodeURIComponent(Slice0(text, PlaceholderTextLen))
  IN IF enc = Threw THEN Threw ELSE Str_PlaceholderPrefix \o enc

buildPlaceholderPoster(title, artist) ==
  CHOOSE p \in { placeholderOfText(OrElse(joined, Str_NoCover)) :
                   joined \in {Trim(Trim(StrOrEmpty(title)) \o <<" ">>
                                      \o Trim(StrOrEmpty(artist)))} } : TRUE

\* `${title || ""} ${artist || ""}`.trim()
posterTerm(title, artist) == Trim(StrOrEmpty(title) \o <<" ">> \o StrOrEmpty(artist))

\* results.find((x) => x?.artworkUrl100)?.artworkUrl100 || null, a candidate
\* being written as its artworkUrl100
firstArtwork(results) ==
  IF \E i \in 1..Len(results) : ~Falsy(results[i])
  THEN results[CHOOSE i \in 1..Len(results) :
                 /\ ~Falsy(results[i])
                 /\ \A h \in 1..(i - 1) : Falsy(results[h])]
  ELSE Null

\* buildPlaceholderPoster(title, artist) || POSTER_PLACEHOLDER, as evaluated
\* inside the try block and again in the catch block
placeholderOrThrow(title, artist) ==
  LET ph == buildPlaceholderPoster(title, artist)
  IN IF ph = Threw THEN Threw ELSE OrElse(ph, POSTER_PLACEHOLDER)

\* lines 102-113: the value for a parsed body, Threw when the catch block throws
posterFromResults(title, artist, results) ==
  LET posterUrl == toHiResArtwork(firstArtwork(results))
  IN IF ~Falsy(posterUrl) THEN posterUrl ELSE placeholderOrThrow(title, artist)

(* ---------------------------- video helpers --------------------------- *)
Str_SearchPrefix == <<"h", "t", "t", "p", "s", ":", "/", "/", "w", "w", "w", ".", "y", "o", "u", "t", "u", "b", "e", ".", "c", "o", "m", "/", "r", "e", "s", "u", "l", "t", "s", "?", "s", "e", "a", "r", "c", "h", "_", "q", "u", "e", "r", "y", "=">>
Str_WatchPrefix == <<"h", "t", "t", "p", "s", ":", "/", "/", "w", "w", "w", ".", "y", "o", "u", "t", "u", "b", "e", ".", "c", "o", "m", "/", "w", "a", "t", "c", "h", "?", "v", "=">>
Str_MusicPrefix == <<"h", "t", "t", "p", "s", ":", "/", "/", "m", "u", "s", "i", "c", ".", "y", "o", "u", "t", "u", "b", "e", ".", "c", "o", "m", "/", "w", "a", "t", "c", "h", "?", "v", "=">>
Str_Marker == <<"\"", "v", "i", "d", "e", "o", "I", "d", "\"", ":", "\"">>

\* {11} in the pattern of extractFirstVideoId
VideoIdLen == 11

\* [a-zA-Z0-9_-]
IdChars == Range(Str_UPPER) \cup Range(Str_LOWER) \cup Range(Str_DIGIT) \cup {"_", "-"}

\* URLSearchParams.toString(): application/x-www-form-urlencoded
FormUnreserved ==
  Range(Str_UPPER) \cup Range(Str_LOWER) \cup Range(Str_DIGIT) \cup {"*", "-", ".", "_"}

FormEncode(s) ==
  LET one(c) == IF c \in FormUnreserved THEN <<c>>
                ELSE IF c = " " THEN <<"+">>
                ELSE PercentOf(c)
      F[i \in 0..Len(s)] == IF i = 0 THEN <<>> ELSE F[i - 1] \o one(s[i])
  IN F[Len(s)]

\* `${title} ${artist}`.trim() into the results URL
buildYoutubeSearchUrl(title, artist) ==
  Str_SearchPrefix \o FormEncode(Trim(title \o <<" ">> \o artist))

\* the pattern "videoId":"([a-zA-Z0-9_-]{11})" matches with its first character at i
IdMatchAt(html, i) ==
  /\ MatchAt(html, Str_Marker, i)
  /\ i + Len(Str_Marker) + VideoIdLen <= Len(html)
  /\ \A j \in 1..VideoIdLen : html[i + Len(Str_Marker) + j - 1] \in IdChars
  /\ html[i + Len(Str_Marker) + VideoIdLen] = "\""

\* extractFirstVideoId returning the capture of the last match
extractFirstVideoId_Last(html) ==
  IF Falsy(html) THEN Null
  ELSE IF \E i \in 1..Len(html) : IdMatchAt(html, i)
  THEN LET i == CHOOSE j \in 1..Len(html) :
                  IdMatchAt(html, j) /\ \A h \in (j + 1)..Len(html) : ~IdMatchAt(html, h)
       IN SubSeq(html, i + Len(Str_Marker), i + Len(Str_Marker) + VideoIdLen - 1)
  ELSE Null

\* the capture of the leftmost match; the test id.length === 11 holds of every match
extractFirstVideoId(html) ==
  IF Falsy(html) THEN Null
  ELSE IF \E i \in 1..Len(html) : IdMatchAt(html, i)
  THEN LET i == CHOOSE j \in 1..Len(html) :
                  IdMatchAt(html, j) /\ \A h \in 1..(j - 1) : ~IdMatchAt(html, h)
       IN SubSeq(html, i + Len(Str_Marker), i + Len(Str_Marker) + VideoIdLen - 1)
  ELSE Null

NullPair == [youtubeUrl |-> Null, musicUrl |-> Null]

\* pairOfHtml with the music URL left out
pairOfHtml_NoMusic(html) ==
  LET videoId == extractFirstVideoId(html)
  IN IF Falsy(videoId) THEN NullPair
     ELSE [youtubeUrl |-> Str_WatchPrefix \o videoId, musicUrl |-> Null]

\* lines 445-454: the pair answered (and stored) for the fetched markup
pairOfHtml(html) ==
  LET videoId == extractFirstVideoId(html)
  IN IF Falsy(videoId) THEN NullPair
     ELSE [youtubeUrl |-> Str_WatchPrefix \o videoId,
           musicUrl |-> Str_MusicPrefix \o videoId]

\* typeof v === "string" ? v.trim() : ""
trimmedString(v) == IF v = Null THEN <<>> ELSE Trim(v)

(* --------------------------- podcast helpers -------------------------- *)
PODCAST_DEFAULT_LIMIT == 20
\* .slice(0, 5) of generatePodcastTermsWithAI
TermCap == 5

Str_PodcastsKey == <<"p", "o", "d", "c", "a", "s", "t", "s", ":">>
Str_null == <<"n", "u", "l", "l">>

\* a missing collectionId
NoId == -1

\* `${v}` of a string-or-null value
Templ(v) == IF v = Null THEN Str_null ELSE v

\* a ?? b
Coalesce(a, b) == IF a = Null THEN b ELSE a

\* `podcasts:${mood.toLowerCase()}`
podcastKey(mood) == Str_PodcastsKey \o ToLowerCase(mood)

\* lines 305-312: one catalog object into one PodcastResult
mapPodcast(p) ==
  [collectionId |-> p.collectionId,
   title        |-> Coalesce(p.collectionName, Null),
   author       |-> Coalesce(p.artistName, Null),
   artworkUrl   |-> OrElse(OrElse(p.artworkUrl600, p.artworkUrl100), Null),
   trackViewUrl |-> OrElse(p.trackViewUrl, Null),
   feedUrl      |-> OrElse(p.feedUrl, Null)]

mapPodcasts(results) == [i \in 1..Len(results) |-> mapPodcast(results[i])]

\* p.collectionId || `${p.title}-${p.author}`: a number, or else a string
identityOf(p) ==
  IF p.collectionId # NoId /\ p.collectionId # 0
  THEN [num |-> p.collectionId, str |-> <<>>]
  ELSE [num |-> NoId, str |-> Templ(p.title) \o <<"-">> \o Templ(p.author)]

\* !id
NoIdentity(id) == id.num = NoId /\ id.str = <<>>

\* !p.title || !p.trackViewUrl
Unusable(p) == Falsy(p.title) \/ Falsy(p.trackViewUrl)

\* lines 395-406: the loop over all from index i on, with the set seen and the
\* list unique built so far
RECURSIVE dedupeFrom(_, _, _, _)
dedupeFrom(all, i, seen, unique) ==
  IF i > Len(all) THEN unique
  ELSE LET p == all[i]
           id == identityOf(p)
       IN IF NoIdentity(id) \/ id \in seen
          THEN dedupeFrom(all, i + 1, seen, unique)
          ELSE IF Unusable(p)
          THEN dedupeFrom(all, i + 1, seen \cup {id}, unique)
          ELSE IF Len(unique) + 1 >= PODCAST_DEFAULT_LIMIT
          THEN Append(unique, p)
          ELSE dedupeFrom(all, i + 1, seen \cup {id}, Append(unique, p))

dedupe(all) == dedupeFrom(all, 1, {}, <<>>)

(* ------------------------------- state -------------------------------- *)
RESOLVE_CACHE_TTL_MS == 3600000
PODCAST_CACHE_TTL_MS == 600000

VARIABLES
  now,           \* Date.now()
  ticks,         \* how often the clock has advanced
  posterCache,   \* key -> poster URL
  podcastCache,  \* key -> [value, expiresAt]
  resolveCache,  \* key -> [youtubeUrl, musicUrl, expiresAt]
  req            \* the requests: arguments, position, locals, answer

vars == <<now, ticks, posterCache, podcastCache, resolveCache, req>>

Req == 1..MaxReq

\* Object.create(null)
EmptyMap == [k \in {} |-> Null]

Has(cache, k) == k \in DOMAIN cache
Put(cache, k, v) == [x \in DOMAIN cache \cup {k} |-> IF x = k THEN v ELSE cache[x]]
Remove(cache, k) == [x \in DOMAIN cache \ {k} |-> cache[x]]

\* a request that has not arrived
Idle ==
  [kind |-> "none", pc |-> "idle",
   title |-> Null, artist |-> Null,          \* fetchItunesPoster(title, artist)
   mood |-> Null,                            \* req.query.mood
   url |-> Null, query |-> Null,             \* body.youtubeSearchUrl, body.query
   key |-> <<>>,                             \* k, cacheKey
   terms |-> <<>>, idx |-> 0,                \* the term loop
   all |-> <<>>, cuts |-> <<>>,              \* all, and all.length after each term
   fetched |-> <<>>,                         \* the search URL that was fetched
   got |-> Null,                             \* data.results of the body that was parsed
   html |-> Null,                            \* what fetchYoutubeSearchHtml returned
   timer |-> FALSE,                          \* the abort timer is armed
   net |-> 0,                                \* external calls issued
   miss |-> FALSE,                           \* the cache was read and had no live entry
   status |-> 0,                             \* HTTP status of the answer
   poster |-> Null, list |-> <<>>, pair |-> NullPair,   \* the answer
   after |-> {},                             \* the requests answered before this one arrived
   stale |-> FALSE,                          \* the cache read found an expired entry
   readT |-> 0, doneT |-> 0]                 \* Date.now() at the cache read and at the answer

Arrives(r) ==
  /\ req[r].pc = "idle"
  /\ r > 1 => req[r - 1].pc # "idle"

Answered == {q \in Req : req[q].pc = "done"}

Begin(r, kind) ==
  [Idle EXCEPT !.kind = kind, !.after = Answered]

Set(r, rec) == req' = [req EXCEPT ![r] = rec]

\* the answer is sent
Done(rec) == [rec EXCEPT !.pc = "done", !.timer = FALSE,
                         !.status = IF @ = 0 THEN 200 ELSE @]

Init ==
  /\ now = 0
  /\ ticks = 0
  /\ posterCache = EmptyMap
  /\ podcastCache = EmptyMap
  /\ resolveCache = EmptyMap
  /\ req = [r \in Req |-> Idle]

\* no request is in flight
Quiet == \A q \in Req : req[q].pc \in {"idle", "done"}

\* time passes
Tick(d) ==
  /\ ticks < MaxTicks
  /\ now' = now + d
  /\ ticks' = ticks + 1
  /\ UNCHANGED <<posterCache, podcastCache, resolveCache, req>>

PodcastTicks == {1, PODCAST_CACHE_TTL_MS - 1}
ResolveTicks == {1, RESOLVE_CACHE_TTL_MS - 1}

(* ------------------------- fetchItunesPoster -------------------------- *)
Str_LongTitle == [i \in 1..(PlaceholderTextLen - 1) |-> "a"] \o <<"hs", "ls">>

\* the (title, artist) pairs the model calls fetchItunesPoster with
PosterArgs ==
  { <<Null, Null>>,
    <<<<" ">>, <<>>>>,
    <<<<"A", "b">>, <<"C">>>>,
    <<<<" ", "a", "b", " ">>, <<"c", " ">>>>,
    <<<<"a", " ", "-", " ", "b">>, <<"c">>>>,
    <<<<"a">>, <<"b", " ", "-", " ", "c">>>>,
    <<Str_LongTitle, Null>> }

\* what r.json() gives: it rejects, or data with data.results
PosterBodies ==
  { [ok |-> FALSE, results |-> <<>>],
    [ok |-> TRUE, results |-> <<>>],
    [ok |-> TRUE, results |-> <<Null, <<"u", "/", "1", "0", "0", "x", "1", "0", "0", "b", "b", ".", "j">>,
                                <<"w", "/", "2", "0", "0", "x", "2", "0", "0", "b", "b", ".", "j">>>>],
    [ok |-> TRUE, results |-> <<<<"v", "/", "1", "0", "0", "x", "1", "0", "0", "b", "b", ".", "/", "1", "0", "0", "x", "1", "0", "0", "b", "b", ".", "p">>>>],
    [ok |-> TRUE, results |-> <<<<"w", "/", "2", "0", "0", "x", "2", "0", "0", "b", "b", ".", "j">>>>] }

\* PosterReturn with a cache that keeps the newest entry only
PosterReturn_Evicting(r, rec, v) ==
  /\ Set(r, Done([rec EXCEPT !.poster = v]))
  /\ posterCache' = IF v = Threw THEN posterCache ELSE Put(EmptyMap, rec.key, v)
  /\ UNCHANGED <<now, ticks, podcastCache, resolveCache>>

\* posterCache[k] = v; return v -- or the promise rejects and nothing is stored
PosterReturn(r, rec, v) ==
  /\ Set(r, Done([rec EXCEPT !.poster = v]))
  /\ posterCache' = IF v = Threw THEN posterCache ELSE Put(posterCache, rec.key, v)
  /\ UNCHANGED <<now, ticks, podcastCache, resolveCache>>

\* lines 69-93: up to the await of fetch
PosterStart(r, title, artist) ==
  /\ Arrives(r)
  /\ LET k == keyOf(title, artist)
         rec == [Begin(r, "poster") EXCEPT !.title = title, !.artist = artist, !.key = k]
     IN IF Has(posterCache, k)
        THEN /\ Set(r, Done([rec EXCEPT !.poster = posterCache[k]]))
             /\ UNCHANGED <<now, ticks, posterCache, podcastCache, resolveCache>>
        ELSE IF posterTerm(title, artist) = <<>>
        THEN PosterReturn(r, [rec EXCEPT !.miss = TRUE],
                          buildPlaceholderPoster(title, artist))
        ELSE /\ Set(r, [rec EXCEPT !.miss = TRUE, !.pc = "fetch", !.timer = TRUE, !.net = 1])
             /\ UNCHANGED <<now, ticks, posterCache, podcastCache, resolveCache>>

\* lines 93-100 and 114-118: fetch settles
PosterFetchDone(r, outcome) ==
  /\ req[r].kind = "poster" /\ req[r].pc = "fetch"
  /\ IF outcome = "ok"
     THEN /\ Set(r, [req[r] EXCEPT !.pc = "json", !.timer = FALSE])
          /\ UNCHANGED <<now, ticks, posterCache, podcastCache, resolveCache>>
     ELSE PosterReturn(r, req[r], placeholderOrThrow(req[r].title, req[r].artist))

\* line 91: the timer fires, the pending call rejects, lines 114-118
PosterTimeout(r) ==
  /\ req[r].kind = "poster" /\ req[r].pc \in {"fetch", "json"}
  /\ req[r].timer
  /\ PosterReturn(r, req[r], placeholderOrThrow(req[r].title, req[r].artist))

\* lines 102-118: r.json() settles
PosterJsonDone(r, body) ==
  /\ req[r].kind = "poster" /\ req[r].pc = "json"
  /\ PosterReturn(r, [req[r] EXCEPT !.got = IF body.ok THEN body.results ELSE Null],
       IF body.ok THEN posterFromResults(req[r].title, req[r].artist, body.results)
       ELSE placeholderOrThrow(req[r].title, req[r].artist))

FetchOutcomes == {"error", "notok", "ok"}

PosterNext(Args, Bodies) ==
  \E r \in Req :
    \/ \E a \in Args : PosterStart(r, a[1], a[2])
    \/ \E o \in FetchOutcomes : PosterFetchDone(r, o)
    \/ PosterTimeout(r)
    \/ \E b \in Bodies : PosterJsonDone(r, b)

\* fetchItunesPoster alone
SpecPoster == Init /\ [][Tick(1) \/ PosterNext(PosterArgs, PosterBodies)]_vars

(* -------------------------- GET /mood/podcasts ------------------------ *)
\* req.query.mood
Moods == { Null, <<"c", "a", "l", "m">>, <<" ", "C", "a", "l", "m", " ">> }

\* limit = 10 of fetchItunesPodcastsByTerm(term, ITUNES_COUNTRY, 10)
PodcastTermLimit == 10

Str_T == <<"T">>
Str_A == <<"A">>
Str_U == <<"u">>

\* one object of the catalog's results
Raw(id, name, artist, link) ==
  [collectionId |-> id, collectionName |-> name, artistName |-> artist,
   artworkUrl600 |-> Null, artworkUrl100 |-> <<"i">>, trackViewUrl |-> link,
   feedUrl |-> Null]

\* a full page of usable, distinct podcasts for the i-th term
FullPage(i) ==
  [j \in 1..PodcastTermLimit |-> Raw(100 * i + j, Str_T, Str_A, Str_U)]

\* a page with repeated and unusable entries: collectionId 42 (without a title
\* when first is FALSE), a null title under id 7, entries without collectionId,
\* collectionId 0 under two titles, an empty trackViewUrl
MixedPage(first) ==
  << Raw(42, IF first THEN Str_T ELSE Null, Str_A, Str_U),
     Raw(7, Null, Str_A, Str_U),
     Raw(NoId, Str_T, Str_A, Str_U),
     Raw(0, Str_T, Str_A, Str_U),
     Raw(0, Str_A, Str_A, Str_U),
     Raw(0, Str_U, Str_A, Str_U),
     Raw(NoId, Null, Null, Str_U),
     Raw(8, Str_T, Str_A, <<>>),
     Raw(42, Str_T, Str_A, Str_U) >>

\* what r.json() gives for the i-th term: it rejects, or data with data.results
PodcastBodies(i) ==
  { [ok |-> FALSE, results |-> <<>>],
    [ok |-> TRUE, results |-> <<>>],
    [ok |-> TRUE, results |-> FullPage(i)] }
    \cup (IF i = 1 THEN { [ok |-> TRUE, results |-> MixedPage(FALSE)],
                          [ok |-> TRUE, results |-> MixedPage(TRUE)] }
          ELSE IF i = 2 THEN { [ok |-> TRUE, results |-> MixedPage(TRUE)] }
          ELSE {})

\* fewer pages, for the specifications with concurrent requests
PodcastBodiesFew(i) ==
  { [ok |-> FALSE, results |-> <<>>],
    [ok |-> TRUE, results |-> MixedPage(i # 1)] }

\* the pages a specification draws from
PodcastPages(few, i) == IF few THEN PodcastBodiesFew(i) ELSE PodcastBodies(i)

\* what generatePodcastTermsWithAI gives: it throws, or up to 5 trimmed,
\* non-empty strings
AITerms(n) == [i \in 1..n |-> <<"q", Str_DIGIT[i + 1]>>]

TermOutcomes ==
  { [ok |-> FALSE, terms |-> <<>>] }
    \cup { [ok |-> TRUE, terms |-> AITerms(n)] : n \in 0..Min(MaxTerms, TermCap) }

TermOutcomesFew ==
  { [ok |-> FALSE, terms |-> <<>>], [ok |-> TRUE, terms |-> AITerms(1)] }

\* line 384
fallbackTerms(mood) ==
  << mood,
     mood \o <<" ", "p", "o", "d", "c", "a", "s", "t">>,
     <<"m", "i", "n", "d", "f", "u", "l", "n", "e", "s", "s">>,
     <<"m", "o", "t", "i", "v", "a", "t", "i", "o", "n">>,
     <<"s", "e", "l", "f", " ", "i", "m", "p", "r", "o", "v", "e", "m", "e", "n", "t">> >>

\* cached = getPodcastCache(key): the live entry's value
PodcastLive(key) == Has(podcastCache, key) /\ podcastCache[key].expiresAt > now

\* podcastCache after getPodcastCache(key)
PodcastAfterGet(key) ==
  IF Has(podcastCache, key) /\ podcastCache[key].expiresAt <= now
  THEN Remove(podcastCache, key)
  ELSE podcastCache

\* setPodcastCache(key, value)
setPodcastCache(key, value) ==
  Put(podcastCache, key, [value |-> value, expiresAt |-> now + PODCAST_CACHE_TTL_MS])

\* lines 373-380: up to the await of generatePodcastTermsWithAI
PodcastStart(r, rawMood) ==
  /\ Arrives(r)
  /\ LET mood == Trim(StrOrEmpty(rawMood))
         rec == [Begin(r, "podcast") EXCEPT !.mood = mood]
     IN IF mood = <<>>
        THEN /\ Set(r, Done([rec EXCEPT !.status = 400]))
             /\ UNCHANGED podcastCache
        ELSE LET key == podcastKey(mood)
                 got == [rec EXCEPT !.key = key, !.readT = now,
                                    !.stale = Has(podcastCache, key) /\ ~PodcastLive(key)]
             IN /\ podcastCache' = PodcastAfterGet(key)
                /\ IF PodcastLive(key)
                   THEN Set(r, Done([got EXCEPT !.list = podcastCache[key].value]))
                   ELSE Set(r, [got EXCEPT !.miss = TRUE, !.pc = "terms", !.net = 1])
  /\ UNCHANGED <<now, ticks, posterCache, resolveCache>>

\* fetchItunesPodcastsByTerm returns [] without a request for a blank term:
\* the first term from index i on that is requested
RECURSIVE nextTerm(_, _)
nextTerm(terms, i) ==
  IF i > Len(terms) \/ Trim(terms[i]) # <<>> THEN i ELSE nextTerm(terms, i + 1)

\* PodcastLoop without the break at line 391
PodcastLoop_NoBreak(r, rec, i) ==
  LET j == nextTerm(rec.terms, i)
  IN IF j <= Len(rec.terms)
     THEN /\ Set(r, [rec EXCEPT !.idx = j, !.pc = "fetch", !.timer = TRUE, !.net = @ + 1])
          /\ UNCHANGED podcastCache
     ELSE LET unique == dedupe(rec.all)
          IN /\ podcastCache' = setPodcastCache(rec.key, unique)
             /\ Set(r, Done([rec EXCEPT !.list = unique, !.doneT = now]))

\* lines 388-409 from the term at index i on: the request for it, or the end
\* of the loop, the dedupe, the cache write and the answer
PodcastLoop(r, rec, i) ==
  LET j == nextTerm(rec.terms, i)
  IN IF j <= Len(rec.terms) /\ Len(rec.all) < PODCAST_DEFAULT_LIMIT * 2
     THEN /\ Set(r, [rec EXCEPT !.idx = j, !.pc = "fetch", !.timer = TRUE, !.net = @ + 1])
          /\ UNCHANGED podcastCache
     ELSE LET unique == dedupe(rec.all)
          IN /\ podcastCache' = setPodcastCache(rec.key, unique)
             /\ Set(r, Done([rec EXCEPT !.list = unique, !.doneT = now]))

\* lines 380-389 and 410-413: the term generator settles
PodcastTermsDone(r, out) ==
  /\ req[r].kind = "podcast" /\ req[r].pc = "terms"
  /\ IF ~out.ok
     THEN /\ Set(r, Done([req[r] EXCEPT !.doneT = now]))
          /\ UNCHANGED podcastCache
     ELSE LET terms == IF out.terms = <<>> THEN fallbackTerms(req[r].mood) ELSE out.terms
          IN PodcastLoop(r, [req[r] EXCEPT !.terms = terms], 1)
  /\ UNCHANGED <<now, ticks, posterCache, resolveCache>>

\* all.push(...chunk) and the rest of the loop
PodcastChunk(r, chunk) ==
  LET all == req[r].all \o chunk
  IN PodcastLoop(r, [req[r] EXCEPT !.all = all, !.cuts = Append(@, Len(all)),
                                   !.timer = FALSE],
                 req[r].idx + 1)

\* lines 299-300 and 313-317: fetch settles
PodcastFetchDone(r, outcome) ==
  /\ req[r].kind = "podcast" /\ req[r].pc = "fetch"
  /\ IF outcome = "ok"
     THEN /\ Set(r, [req[r] EXCEPT !.pc = "json"])
          /\ UNCHANGED podcastCache
     ELSE PodcastChunk(r, <<>>)
  /\ UNCHANGED <<now, ticks, posterCache, resolveCache>>

\* line 296: the timer fires, the pending call rejects, lines 313-317
PodcastTimeout(r) ==
  /\ req[r].kind = "podcast" /\ req[r].pc \in {"fetch", "json"}
  /\ req[r].timer
  /\ PodcastChunk(r, <<>>)
  /\ UNCHANGED <<now, ticks, posterCache, resolveCache>>

\* lines 302-317: r.json() settles
PodcastJsonDone(r, body) ==
  /\ req[r].kind = "podcast" /\ req[r].pc = "json"
  /\ PodcastChunk(r, IF body.ok THEN mapPodcasts(body.results) ELSE <<>>)
  /\ UNCHANGED <<now, ticks, posterCache, resolveCache>>

\* the requests arrive while others are in flight
PodcastNext(M, Outcomes, few) ==
  \E r \in Req :
    \/ \E m \in M : PodcastStart(r, m)
    \/ \E t \in Outcomes : PodcastTermsDone(r, t)
    \/ \E o \in FetchOutcomes : PodcastFetchDone(r, o)
    \/ PodcastTimeout(r)
    \/ \E b \in PodcastPages(few, req[r].idx) : PodcastJsonDone(r, b)

\* the requests arrive one after the other
PodcastNextSeq(M, Outcomes, few) ==
  \E r \in Req :
    \/ Quiet /\ \E m \in M : PodcastStart(r, m)
    \/ \E t \in Outcomes : PodcastTermsDone(r, t)
    \/ \E o \in FetchOutcomes : PodcastFetchDone(r, o)
    \/ PodcastTimeout(r)
    \/ \E b \in PodcastPages(few, req[r].idx) : PodcastJsonDone(r, b)

\* GET /mood/podcasts alone, one request at a time, every page and term list
SpecPodcast ==
  Init /\ [][PodcastNextSeq({Null, <<" ", "C", "a", "l", "m", " ">>}, TermOutcomes, FALSE)]_vars

(* ------------------------ POST /resolve/music-url --------------------- *)
Str_UrlAb == <<"h", "t", "t", "p", "s", ":", "/", "/", "w", "w", "w", ".", "y", "o", "u", "t", "u", "b", "e", ".", "c", "o", "m", "/", "r", "e", "s", "u", "l", "t", "s", "?", "s", "e", "a", "r", "c", "h", "_", "q", "u", "e", "r", "y", "=", "a", "b">>
Str_UrlZz == <<"h", "t", "t", "p", "s", ":", "/", "/", "w", "w", "w", ".", "y", "o", "u", "t", "u", "b", "e", ".", "c", "o", "m", "/", "r", "e", "s", "u", "l", "t", "s", "?", "s", "e", "a", "r", "c", "h", "_", "q", "u", "e", "r", "y", "=", "z", "z">>

\* req.body: youtubeSearchUrl and query, Null when absent or not a string
VideoBodies ==
  { [url |-> Null, query |-> Null],
    [url |-> Null, query |-> <<" ", "a", "b", " ">>],
    [url |-> Str_UrlAb, query |-> Null],
    [url |-> Str_UrlZz, query |-> <<"a", "b">>],
    [url |-> Null, query |-> Str_UrlZz] }

VideoBodiesFew ==
  { [url |-> Null, query |-> Null],
    [url |-> Null, query |-> <<" ", "a", "b", " ">>],
    [url |-> Str_UrlZz, query |-> <<"a", "b">>] }

\* what res.text() gives: Null when it rejects
Htmls ==
  { Null,
    <<"<", "h", "t", "m", "l", ">">>,
    <<"x", "\"", "v", "i", "d", "e", "o", "I", "d", "\"", ":", "\"", "d", "Q", "w", "4", "w", "9", "W", "g", "X", "c", "Q", "\"", "y">>,
    <<"\"", "v", "i", "d", "e", "o", "I", "d", "\"", ":", "\"", "s", "h", "o", "r", "t", "\"", ",", "\"", "v", "i", "d", "e", "o", "I", "d", "\"", ":", "\"", "a", "b", "c", "_", "d", "e", "f", "-", "h", "i", "j", "\"", ",", "\"", "v", "i", "d", "e", "o", "I", "d", "\"", ":", "\"", "B", "B", "B", "B", "B", "B", "B", "B", "B", "B", "B", "\"">> }

HtmlsFew ==
  { Null,
    <<"<", "h", "t", "m", "l", ">">>,
    <<"x", "\"", "v", "i", "d", "e", "o", "I", "d", "\"", ":", "\"", "d", "Q", "w", "4", "w", "9", "W", "g", "X", "c", "Q", "\"", "y">> }

\* getFromResolveCache(key) finds a live entry
ResolveLive(key) ==
  key # <<>> /\ Has(resolveCache, key) /\ resolveCache[key].expiresAt > now

\* ResolveAfterGet with an expiry that slides on a hit
ResolveAfterGet_Sliding(key) ==
  IF key # <<>> /\ Has(resolveCache, key) /\ resolveCache[key].expiresAt <= now
  THEN Remove(resolveCache, key)
  ELSE IF key # <<>> /\ Has(resolveCache, key)
  THEN [resolveCache EXCEPT ![key].expiresAt = now + RESOLVE_CACHE_TTL_MS]
  ELSE resolveCache

\* resolveCache after getFromResolveCache(key)
ResolveAfterGet(key) ==
  IF key # <<>> /\ Has(resolveCache, key) /\ resolveCache[key].expiresAt <= now
  THEN Remove(resolveCache, key)
  ELSE resolveCache

\* what getFromResolveCache(key) returns for a live entry
getFromResolveCache(key) ==
  [youtubeUrl |-> resolveCache[key].youtubeUrl, musicUrl |-> resolveCache[key].musicUrl]

setResolveCache(key, youtubeUrl, musicUrl) ==
  IF key = <<>> THEN resolveCache
  ELSE Put(resolveCache, key,
           [youtubeUrl |-> youtubeUrl, musicUrl |-> musicUrl,
            expiresAt |-> now + RESOLVE_CACHE_TTL_MS])

\* lines 420-442: up to the await of fetch
VideoStart(r, body) ==
  /\ Arrives(r)
  /\ LET youtubeSearchUrlInput == trimmedString(body.url)
         queryInput == trimmedString(body.query)
         rec == [Begin(r, "video") EXCEPT !.url = youtubeSearchUrlInput,
                                          !.query = queryInput]
     IN IF youtubeSearchUrlInput = <<>> /\ queryInput = <<>>
        THEN /\ Set(r, Done([rec EXCEPT !.status = 400]))
             /\ UNCHANGED resolveCache
        ELSE LET cacheKey == OrElse(queryInput, youtubeSearchUrlInput)
                 got == [rec EXCEPT !.key = cacheKey, !.readT = now,
                                    !.stale = Has(resolveCache, cacheKey) /\ ~ResolveLive(cacheKey)]
             IN /\ resolveCache' = ResolveAfterGet(cacheKey)
                /\ IF ResolveLive(cacheKey)
                   THEN Set(r, Done([got EXCEPT !.pair = getFromResolveCache(cacheKey)]))
                   ELSE Set(r, [got EXCEPT
                          !.miss = TRUE, !.pc = "fetch", !.timer = TRUE, !.net = 1,
                          !.fetched = OrElse(youtubeSearchUrlInput,
                                             buildYoutubeSearchUrl(queryInput, <<>>))])
  /\ UNCHANGED <<now, ticks, posterCache, podcastCache>>

\* VideoReturn that also empties posterCache
VideoReturn_ClearingPosters(r, html) ==
  LET pair == pairOfHtml(html)
  IN /\ resolveCache' = setResolveCache(req[r].key, pair.youtubeUrl, pair.musicUrl)
     /\ Set(r, Done([req[r] EXCEPT !.pair = pair, !.html = html, !.doneT = now]))
     /\ posterCache' = EmptyMap
     /\ UNCHANGED <<now, ticks, podcastCache>>

\* lines 443-454: the markup (Null for a failed fetch) into the cache and the answer
VideoReturn(r, html) ==
  LET pair == pairOfHtml(html)
  IN /\ resolveCache' = setResolveCache(req[r].key, pair.youtubeUrl, pair.musicUrl)
     /\ Set(r, Done([req[r] EXCEPT !.pair = pair, !.html = html, !.doneT = now]))
     /\ UNCHANGED <<now, ticks, posterCache, podcastCache>>

\* lines 157-173: fetch settles
VideoFetchDone(r, outcome) ==
  /\ req[r].kind = "video" /\ req[r].pc = "fetch"
  /\ IF outcome = "ok"
     THEN /\ Set(r, [req[r] EXCEPT !.pc = "text"])
          /\ UNCHANGED <<now, ticks, posterCache, podcastCache, resolveCache>>
     ELSE VideoReturn(r, Null)

\* line 154: the timer fires, the pending call rejects, lines 169-173
VideoTimeout(r) ==
  /\ req[r].kind = "video" /\ req[r].pc \in {"fetch", "text"}
  /\ req[r].timer
  /\ VideoReturn(r, Null)

\* lines 168-173: res.text() settles
VideoTextDone(r, html) ==
  /\ req[r].kind = "video" /\ req[r].pc = "text"
  /\ VideoReturn(r, html)

VideoNext(Bodies, Pages) ==
  \E r \in Req :
    \/ \E b \in Bodies : VideoStart(r, b)
    \/ \E o \in FetchOutcomes : VideoFetchDone(r, o)
    \/ VideoTimeout(r)
    \/ \E h \in Pages : VideoTextDone(r, h)

\* POST /resolve/music-url alone
SpecVideo ==
  Init /\ [][(\E d \in ResolveTicks : Tick(d)) \/ VideoNext(VideoBodies, Htmls)]_vars

(* --------------------------- the whole layer -------------------------- *)
PosterArgsFew ==
  { <<Null, Null>>,
    <<<<"A", "b">>, <<"C">>>>,
    <<<<" ", "a", "b", " ">>, <<"c", " ">>>>,
    <<Str_LongTitle, Null>> }

PosterBodiesFew ==
  { [ok |-> FALSE, results |-> <<>>],
    [ok |-> TRUE, results |-> <<Null, <<"u", "/", "1", "0", "0", "x", "1", "0", "0", "b", "b", ".", "j">>>>] }

Next ==
  \/ \E d \in PodcastTicks \cup ResolveTicks : Tick(d)
  \/ PosterNext(PosterArgsFew, PosterBodiesFew)
  \/ PodcastNext(Moods, TermOutcomesFew, TRUE)
  \/ VideoNext(VideoBodiesFew, HtmlsFew)

Spec == Init /\ [][Next]_vars

\* a step the runtime takes by itself: an armed abort timer fires, or
\* generatePodcastTermsWithAI settles (its client has a timeout of its own).
\* Nothing makes the network answer.
Settles ==
  \E r \in Req :
    \/ PosterTimeout(r)
    \/ PodcastTimeout(r)
    \/ VideoTimeout(r)
    \/ \E t \in TermOutcomesFew : PodcastTermsDone(r, t)

Fairness == WF_vars(Settles)

FairSpec == Spec /\ Fairness

(* ------------------------------ properties ---------------------------- *)
IsDone(r) == req[r].pc = "done"
Started(r) == req[r].pc # "idle"

\* r went through its cache and was answered by the resolver (not rejected as
\* a bad request)
Resolved(r) == IsDone(r) /\ req[r].status = 200

\* r starts in this step
Starts(r) == req[r].pc = "idle" /\ req'[r].pc # "idle"
\* r is answered in this step
Completes(r) == req[r].pc # "done" /\ req'[r].pc = "done"

SameAnswer(a, b) ==
  /\ req[a].poster = req[b].poster
  /\ req[a].list = req[b].list
  /\ req[a].pair = req[b].pair

\* b read its cache inside the TTL window opened by a's answer
InWindow(a, b) ==
  CASE req[a].kind = "poster"  -> TRUE
    [] req[a].kind = "podcast" -> req[b].readT < req[a].doneT + PODCAST_CACHE_TTL_MS
    [] req[a].kind = "video"   -> req[b].readT < req[a].doneT + RESOLVE_CACHE_TTL_MS
    [] OTHER -> FALSE

\* the cache of r's resolver holds r's answer under r's key
StoredAnswer(r) ==
  CASE req[r].kind = "poster" ->
         Has(posterCache, req[r].key) /\ posterCache[req[r].key] = req[r].poster
    [] req[r].kind = "podcast" ->
         Has(podcastCache, req[r].key) /\ podcastCache[req[r].key].value = req[r].list
    [] req[r].kind = "video" ->
         /\ Has(resolveCache, req[r].key)
         /\ resolveCache[req[r].key].youtubeUrl = req[r].pair.youtubeUrl
         /\ resolveCache[req[r].key].musicUrl = req[r].pair.musicUrl
    [] OTHER -> FALSE

\* C1 (as claimed): when a resolution of a key has been answered with a value
\* and a second call of the same resolver with the same key starts afterwards,
\* inside the TTL window, the second call issues no external call and returns
\* the value the first returned -- whatever the first call's outcome was.
C1_Idempotence ==
  \A a, b \in Req :
    ( /\ Resolved(a) /\ req[a].miss /\ req[a].poster # Threw
      /\ a \in req[b].after
      /\ req[b].kind = req[a].kind /\ req[b].key = req[a].key
      /\ req[b].status \in {0, 200}
      /\ InWindow(a, b) )
    => /\ req[b].net = 0
       /\ IsDone(b) /\ SameAnswer(a, b)

\* a podcast request was answered, and a later request with its key, inside the
\* window, went to the network again
C1_SecondCallRefetches ==
  \E a, b \in Req :
    /\ Resolved(a) /\ req[a].kind = "podcast" /\ req[a].miss
    /\ a \in req[b].after
    /\ req[b].kind = "podcast" /\ req[b].key = req[a].key
    /\ InWindow(a, b)
    /\ req[b].net > 0

\* C2 (as claimed): every answered resolution ends in a value of its shape:
\* a non-null URL string for the poster (never a rejected promise), a list
\* for the podcasts, a pair that is both null or both URLs for the video.
C2_NeverFails ==
  \A r \in Req :
    Resolved(r) =>
      /\ req[r].kind = "poster" => req[r].poster # Threw /\ ~Falsy(req[r].poster)
      /\ req[r].kind = "podcast" => Len(req[r].list) >= 0
      /\ req[r].kind = "video" =>
           (req[r].pair.youtubeUrl = Null <=> req[r].pair.musicUrl = Null)

\* a call of fetchItunesPoster ended in a rejected promise
C2_PosterRejects ==
  \E r \in Req : req[r].kind = "poster" /\ IsDone(r) /\ req[r].poster = Threw

\* C3 (as claimed): every request that has started is eventually answered.
C3_EventuallyAnswered ==
  \A r \in Req : Started(r) ~> IsDone(r)

\* C4 (as claimed): when a resolution is answered after a cache miss, the
\* cache holds the answer under the resolution's key, for every outcome.
C4_AnswerIsStored ==
  [][\A r \in Req : (Completes(r) /\ req'[r].miss) => StoredAnswer(r)']_vars

\* a podcast request was answered after a miss and podcastCache has no entry
\* under its key
C4_AnswerNotStored ==
  \E r \in Req :
    /\ Resolved(r) /\ req[r].kind = "podcast" /\ req[r].miss
    /\ ~Has(podcastCache, req[r].key)

\* an entry of the cache is written (created or replaced) in this step
Written(cache, cacheNext, k) ==
  /\ Has(cacheNext, k)
  /\ ~Has(cache, k) \/ cache[k] # cacheNext[k]

\* C5 (as claimed): an entry written at t expires at t + TTL; a read before
\* expiresAt is a hit returning the stored value; a read at or after
\* expiresAt is a miss that removes the entry, and the request's fresh
\* resolution then writes a new entry.
C5_Expiry ==
  [][ /\ \A k \in DOMAIN podcastCache' :
           Written(podcastCache, podcastCache', k)
             => podcastCache'[k].expiresAt = now + PODCAST_CACHE_TTL_MS
      /\ \A k \in DOMAIN resolveCache' :
           Written(resolveCache, resolveCache', k)
             => resolveCache'[k].expiresAt = now + RESOLVE_CACHE_TTL_MS
      /\ \A r \in Req :
           LET k == req'[r].key
           IN /\ (Starts(r) /\ req'[r].kind = "podcast" /\ Has(podcastCache, k)) =>
                   IF now < podcastCache[k].expiresAt
                   THEN /\ req'[r].pc = "done" /\ ~req'[r].miss
                        /\ req'[r].list = podcastCache[k].value
                        /\ podcastCache' = podcastCache
                   ELSE req'[r].miss /\ req'[r].pc # "done" /\ ~Has(podcastCache', k)
              /\ (Starts(r) /\ req'[r].kind = "video" /\ Has(resolveCache, k)) =>
                   IF now < resolveCache[k].expiresAt
                   THEN /\ req'[r].pc = "done" /\ ~req'[r].miss
                        /\ req'[r].pair.youtubeUrl = resolveCache[k].youtubeUrl
                        /\ req'[r].pair.musicUrl = resolveCache[k].musicUrl
                        /\ resolveCache' = resolveCache
                   ELSE req'[r].miss /\ req'[r].pc # "done" /\ ~Has(resolveCache', k)
              /\ (Completes(r) /\ req'[r].stale) =>
                   /\ StoredAnswer(r)'
                   /\ req'[r].kind = "podcast" =>
                        podcastCache'[k].expiresAt = now + PODCAST_CACHE_TTL_MS
                   /\ req'[r].kind = "video" =>
                        resolveCache'[k].expiresAt = now + RESOLVE_CACHE_TTL_MS
    ]_vars

\* a request removed a stale entry, was answered, and left no entry behind
C5_NoNewEntry ==
  \E r \in Req :
    /\ Resolved(r) /\ req[r].stale /\ req[r].miss
    /\ req[r].kind = "podcast"
    /\ ~Has(podcastCache, req[r].key)

\* trimming and lower-casing, a missing value counted as empty
Norm(v) == ToLowerCase(Trim(StrOrEmpty(v)))

\* C6: when fetchItunesPoster starts with a (title, artist) pair whose title
\* and artist equal, after trimming and lower-casing, those of a call that has
\* returned a value, it uses that call's key and is a cache hit: it issues no
\* request and returns the value stored under the key.
C6_KeyEquivalence ==
  [][\A r, q \in Req :
       ( /\ Starts(r) /\ req'[r].kind = "poster"
         /\ IsDone(q) /\ req[q].kind = "poster" /\ req[q].poster # Threw
         /\ Norm(req'[r].title) = Norm(req[q].title)
         /\ Norm(req'[r].artist) = Norm(req[q].artist) )
       => /\ req'[r].key = req[q].key
          /\ Has(posterCache, req[q].key)
          /\ req'[r].pc = "done" /\ ~req'[r].miss /\ req'[r].net = 0
          /\ req'[r].poster = posterCache[req[q].key]
          /\ posterCache' = posterCache ]_vars

\* a hit of a call whose title is written differently from the title of the
\* call that filled the entry
C6_HitAcrossSpellings ==
  \E r, q \in Req :
    /\ req[q].kind = "poster" /\ IsDone(q) /\ req[q].miss /\ req[q].net = 1
    /\ req[r].kind = "poster" /\ IsDone(r) /\ ~req[r].miss /\ req[r].net = 0
    /\ q \in req[r].after
    /\ req[r].title # req[q].title /\ req[r].artist # req[q].artist
    /\ Norm(req[r].title) = Norm(req[q].title)
    /\ Norm(req[r].artist) = Norm(req[q].artist)
    /\ req[r].poster = req[q].poster

\* the identity the dedup is specified with: collectionId if present, else
\* the pair (title, author)
SpecIdentity(p) ==
  IF p.collectionId # NoId
  THEN [num |-> p.collectionId, title |-> <<>>, author |-> <<>>]
  ELSE [num |-> NoId, title |-> p.title, author |-> p.author]

ListShape(l) ==
  /\ Len(l) <= PODCAST_DEFAULT_LIMIT
  /\ \A i, j \in 1..Len(l) : i < j => SpecIdentity(l[i]) # SpecIdentity(l[j])
  /\ \A i \in 1..Len(l) : ~Falsy(l[i].title) /\ ~Falsy(l[i].trackViewUrl)

\* C7 (as claimed): every list the podcast handler answers with, and every
\* list in podcastCache, has at most 20 entries, no two entries of one
\* identity (collectionId if present, else title and author), and only
\* entries with a non-empty title and a non-empty trackViewUrl.
C7_ListShape ==
  /\ \A r \in Req : (Resolved(r) /\ req[r].kind = "podcast") => ListShape(req[r].list)
  /\ \A k \in DOMAIN podcastCache : ListShape(podcastCache[k].value)

\* a list is answered that holds two entries with collectionId 0
C7_TwoEntriesOfIdZero ==
  \E r \in Req :
    /\ Resolved(r) /\ req[r].kind = "podcast"
    /\ \E i, j \in 1..Len(req[r].list) :
         /\ i < j
         /\ req[r].list[i].collectionId = 0
         /\ req[r].list[j].collectionId = 0

\* the chunk of the t-th requested term within all
ChunkOf(r, t) ==
  SubSeq(req[r].all, IF t = 1 THEN 1 ELSE req[r].cuts[t - 1] + 1, req[r].cuts[t])

HasId(l, c) == \E i \in 1..Len(l) : l[i].collectionId = c
CountId(l, c) == Cardinality({i \in 1..Len(l) : l[i].collectionId = c})

\* the collectionIds that the results of two terms both contain
SharedIds(r) ==
  { c \in {req[r].all[i].collectionId : i \in 1..Len(req[r].all)} \ {NoId} :
      \E t, u \in 1..Len(req[r].cuts) :
        t < u /\ HasId(ChunkOf(r, t), c) /\ HasId(ChunkOf(r, u), c) }

\* C8 (as claimed): when the results of two terms both contain an entry with
\* one collectionId, the answered list contains exactly one entry with that
\* id, whatever the other fields of the two entries are.
C8_ExactlyOne ==
  \A r \in Req :
    (Resolved(r) /\ req[r].kind = "podcast" /\ req[r].miss) =>
      \A c \in SharedIds(r) : CountId(req[r].list, c) = 1

\* the results of two terms contain id 42, the later occurrence is usable, and
\* the answered list has no entry with id 42
C8_UsableDuplicateLost ==
  \E r \in Req :
    /\ Resolved(r) /\ req[r].kind = "podcast" /\ req[r].miss
    /\ 42 \in SharedIds(r)
    /\ \E i \in 1..Len(req[r].all) :
         req[r].all[i].collectionId = 42 /\ ~Unusable(req[r].all[i])
    /\ Len(req[r].list) < PODCAST_DEFAULT_LIMIT
    /\ CountId(req[r].list, 42) = 0

\* both null, or the watch URL and the music URL of one 11-character id
PairShape(y, m) ==
  \/ y = Null /\ m = Null
  \/ /\ y # Null /\ m # Null
     /\ Len(y) = Len(Str_WatchPrefix) + VideoIdLen
     /\ Len(m) = Len(Str_MusicPrefix) + VideoIdLen
     /\ SubSeq(y, 1, Len(Str_WatchPrefix)) = Str_WatchPrefix
     /\ SubSeq(m, 1, Len(Str_MusicPrefix)) = Str_MusicPrefix
     /\ SubSeq(y, Len(Str_WatchPrefix) + 1, Len(y))
          = SubSeq(m, Len(Str_MusicPrefix) + 1, Len(m))
     /\ \A i \in (Len(Str_WatchPrefix) + 1)..Len(y) : y[i] \in IdChars

\* C9: every pair the video handler answers with, and every entry of
\* resolveCache, is both null or the watch URL and the music URL built from
\* one 11-character video id.
C9_PairShape ==
  /\ \A r \in Req :
       (Resolved(r) /\ req[r].kind = "video")
         => PairShape(req[r].pair.youtubeUrl, req[r].pair.musicUrl)
  /\ \A k \in DOMAIN resolveCache :
       PairShape(resolveCache[k].youtubeUrl, resolveCache[k].musicUrl)

\* a pair of URLs has been answered and stored
C9_UrlPairStored ==
  \E r \in Req :
    /\ Resolved(r) /\ req[r].kind = "video" /\ req[r].miss
    /\ req[r].pair.youtubeUrl # Null /\ req[r].pair.musicUrl # Null
    /\ StoredAnswer(r)

\* C10: no step removes a key from posterCache, whatever time has passed, and
\* a call of fetchItunesPoster that starts when its key is in posterCache is
\* a hit: it issues no request and returns the stored value.
C10_PosterCacheIsPermanent ==
  [][ /\ DOMAIN posterCache \subseteq DOMAIN posterCache'
      /\ \A r \in Req :
           (Starts(r) /\ req'[r].kind = "poster" /\ Has(posterCache, req'[r].key))
             => /\ req'[r].pc = "done" /\ ~req'[r].miss /\ req'[r].net = 0
                /\ req'[r].poster = posterCache[req'[r].key] ]_vars

\* after the clock has advanced, a call is a hit
C10_HitAfterTime ==
  \E r \in Req :
    /\ req[r].kind = "poster" /\ IsDone(r) /\ ~req[r].miss /\ req[r].net = 0
    /\ ticks = MaxTicks
    /\ req[r].poster = posterCache[req[r].key]

Str_NoPlusCover == <<"N", "o", "+", "C", "o", "v", "e", "r">>

\* both arguments are missing, empty or whitespace only
Blank(r) == Trim(StrOrEmpty(req[r].title)) = <<>> /\ Trim(StrOrEmpty(req[r].artist)) = <<>>

\* C11 (as claimed): a call of fetchItunesPoster with a blank title and a
\* blank artist issues no request, returns a non-null URL that contains
\* "No+Cover" or is POSTER_PLACEHOLDER, and posterCache holds that URL under
\* the call's key.
C11_BlankFallback ==
  \A r \in Req :
    (req[r].kind = "poster" /\ IsDone(r) /\ Blank(r)) =>
      /\ req[r].net = 0
      /\ req[r].poster # Threw /\ ~Falsy(req[r].poster)
      /\ Contains(req[r].poster, Str_NoPlusCover) \/ req[r].poster = POSTER_PLACEHOLDER
      /\ Has(posterCache, req[r].key) /\ posterCache[req[r].key] = req[r].poster

\* a blank call was answered, without a request, with the stored URL that
\* ends in No%20Cover
C11_PercentEncodedCover ==
  \E r \in Req :
    /\ req[r].kind = "poster" /\ IsDone(r) /\ Blank(r) /\ req[r].miss
    /\ req[r].net = 0
    /\ req[r].poster = Str_PlaceholderPrefix \o <<"N", "o", "%", "2", "0", "C", "o", "v", "e", "r">>
    /\ posterCache[req[r].key] = req[r].poster

\* v is u with one size token /100x100bb. replaced by /600x600bb. and nothing
\* else altered (u itself when u has no such token)
Rewritten(u, v) ==
  IF ~Contains(u, Str_100) THEN v = u
  ELSE \E i \in 1..Len(u) :
         /\ MatchAt(u, Str_100, i)
         /\ v = SubSeq(u, 1, i - 1) \o Str_600 \o SubSeq(u, i + Len(Str_100), Len(u))

\* a placeholder URL
IsPlaceholder(v) ==
  /\ v # Threw /\ v # Null
  /\ v = POSTER_PLACEHOLDER
       \/ (Len(v) > Len(Str_PlaceholderPrefix)
           /\ SubSeq(v, 1, Len(Str_PlaceholderPrefix)) = Str_PlaceholderPrefix)

\* C12 (as claimed): when the catalog's body was parsed, the poster returned
\* is the artwork URL of the first candidate that carries one, with the
\* 100x100 size token replaced by 600x600 and nothing else altered; when no
\* candidate carries an artwork URL, the placeholder is returned.
C12_HiResRewrite ==
  \A r \in Req :
    (req[r].kind = "poster" /\ IsDone(r) /\ req[r].got # Null) =>
      LET got == req[r].got
          carriers == {i \in 1..Len(got) : ~Falsy(got[i])}
      IN IF carriers # {}
         THEN \E i \in carriers :
                /\ \A h \in carriers : i <= h
                /\ Rewritten(got[i], req[r].poster)
         ELSE IsPlaceholder(req[r].poster)

\* the body had no candidate with an artwork URL and the call ended in a
\* rejected promise
C12_FallbackRejects ==
  \E r \in Req :
    /\ req[r].kind = "poster" /\ IsDone(r)
    /\ req[r].got # Null /\ \A i \in 1..Len(req[r].got) : Falsy(req[r].got[i])
    /\ req[r].poster = Threw

\* the value (without expiresAt) stored under k in the cache of kind
ValueIn(kind, pc, dc, rc, k) ==
  CASE kind = "poster"  -> pc[k]
    [] kind = "podcast" -> dc[k].value
    [] OTHER -> [youtubeUrl |-> rc[k].youtubeUrl, musicUrl |-> rc[k].musicUrl]

CacheHas(kind, k) ==
  CASE kind = "poster"  -> Has(posterCache, k)
    [] kind = "podcast" -> Has(podcastCache, k)
    [] OTHER -> Has(resolveCache, k)

\* C13 (as claimed): when a resolution that missed the cache is answered and
\* an entry for its key has been stored meanwhile by another resolution that
\* was in flight at the same time, the value under the key stays what it was.
C13_SameValueWritten ==
  [][\A r \in Req :
       ( /\ Completes(r) /\ req'[r].miss /\ req'[r].status = 200
         /\ CacheHas(req[r].kind, req[r].key) )
       => /\ CacheHas(req[r].kind, req[r].key)'
          /\ ValueIn(req[r].kind, posterCache', podcastCache', resolveCache', req[r].key)
               = ValueIn(req[r].kind, posterCache, podcastCache, resolveCache, req[r].key)
    ]_vars

\* two calls of fetchItunesPoster for one key were in flight together, one
\* returned an artwork URL, and the cache holds the other's placeholder
C13_ArtworkReplaced ==
  \E r, q \in Req :
    /\ r # q /\ req[r].kind = "poster" /\ req[q].kind = "poster"
    /\ IsDone(r) /\ IsDone(q) /\ req[r].miss /\ req[q].miss
    /\ req[r].key = req[q].key
    /\ q \notin req[r].after /\ r \notin req[q].after
    /\ req[q].poster # Threw /\ ~IsPlaceholder(req[q].poster)
    /\ IsPlaceholder(req[r].poster)
    /\ posterCache[req[r].key] = req[r].poster

\* C14 (as claimed): a resolution that finds no live entry for its key issues
\* an external call of its own, whatever else is in flight, and when it is
\* answered it has written the cache entry of its key.
C14_NoCoalescing ==
  [][\A r \in Req :
       /\ (Starts(r) /\ req'[r].miss) => (req'[r].net >= 1 /\ req'[r].pc # "done")
       /\ (Completes(r) /\ req'[r].miss /\ req'[r].status = 200) =>
            (req'[r].net >= 1 /\ StoredAnswer(r)')
    ]_vars

\* two podcast requests for one key were in flight together, both called out,
\* both were answered, and the cache has no entry for the key
C14_TwoCallsNoWrite ==
  \E r, q \in Req :
    /\ r # q /\ req[r].kind = "podcast" /\ req[q].kind = "podcast"
    /\ req[r].key = req[q].key
    /\ Resolved(r) /\ Resolved(q) /\ req[r].miss /\ req[q].miss
    /\ q \notin req[r].after /\ r \notin req[q].after
    /\ req[r].net >= 1 /\ req[q].net >= 1
    /\ ~Has(podcastCache, req[r].key)

\* r went to the network for a search page
Fetched(r) == req[r].kind = "video" /\ req[r].miss /\ req[r].fetched # <<>>

\* C15 (as claimed): two video requests with one cache key fetch one search
\* URL, and the URL fetched for key k is k itself or the search URL built
\* from the query k.
C15_KeyDeterminesUrl ==
  /\ \A r, q \in Req :
       (Fetched(r) /\ Fetched(q) /\ req[r].key = req[q].key)
         => req[r].fetched = req[q].fetched
  /\ \A r \in Req :
       Fetched(r) =>
         req[r].fetched \in {req[r].key, buildYoutubeSearchUrl(req[r].key, <<>>)}

\* two requests with the key "ab" fetched two different search URLs
C15_OneKeyTwoUrls ==
  \E r, q \in Req :
    /\ Fetched(r) /\ Fetched(q)
    /\ req[r].key = <<"a", "b">> /\ req[q].key = <<"a", "b">>
    /\ req[r].fetched = Str_UrlZz
    /\ req[q].fetched = Str_UrlAb

\* r is a podcast resolution whose terms are known
InTermLoop(r) == req[r].kind = "podcast" /\ req[r].miss /\ req[r].terms # <<>>

\* C16: in every podcast resolution the terms are requested one at a time in
\* list order: the request in flight is the one for the term after the
\* completed ones; a request follows only an accumulated count below
\* 2 * PODCAST_DEFAULT_LIMIT; the resolution is answered when that count is
\* reached or the terms are exhausted; the catalog requests never outnumber
\* the terms.
C16_EarlyTermination ==
  \A r \in Req :
    InTermLoop(r) =>
      LET done == Len(req[r].cuts)
          catalog == req[r].net - 1
      IN /\ catalog <= Len(req[r].terms)
         /\ \A t \in 1..(done - 1) : req[r].cuts[t] < 2 * PODCAST_DEFAULT_LIMIT
         /\ req[r].pc \in {"fetch", "json"} =>
              /\ req[r].idx = done + 1 /\ catalog = done + 1
              /\ done > 0 => req[r].cuts[done] < 2 * PODCAST_DEFAULT_LIMIT
         /\ IsDone(r) =>
              /\ catalog = done
              /\ \/ done = Len(req[r].terms)
                 \/ (done > 0 /\ req[r].cuts[done] >= 2 * PODCAST_DEFAULT_LIMIT)

\* a resolution was answered after four of its five terms, with 40 results
C16_StoppedEarly ==
  \E r \in Req :
    /\ InTermLoop(r) /\ IsDone(r)
    /\ Len(req[r].terms) = TermCap
    /\ Len(req[r].cuts) = 4
    /\ Len(req[r].all) = 2 * PODCAST_DEFAULT_LIMIT
    /\ req[r].net = 5

\* at index i of h: the marker "videoId":" , then 11 characters of
\* [A-Za-z0-9_-], then a closing quote
Occurrence(h, i) ==
  LET a == i + Len(Str_Marker)
  IN /\ a + VideoIdLen <= Len(h)
     /\ SubSeq(h, i, a - 1) = Str_Marker
     /\ \A c \in Range(SubSeq(h, a, a + VideoIdLen - 1)) : c \in IdChars
     /\ h[a + VideoIdLen] = "\""

IdAt(h, i) == SubSeq(h, i + Len(Str_Marker), i + Len(Str_Marker) + VideoIdLen - 1)

\* C17: a video resolution that fetched markup answers with the URLs of the
\* identifier of the first occurrence in the markup, and with a both-null
\* pair when the markup is null or empty or has no occurrence.
C17_FirstVideoId ==
  \A r \in Req :
    (req[r].kind = "video" /\ Resolved(r) /\ req[r].miss) =>
      LET h == req[r].html
          occ == IF h = Null THEN {} ELSE {i \in 1..Len(h) : Occurrence(h, i)}
      IN IF occ = {}
         THEN req[r].pair = NullPair /\ extractFirstVideoId(h) = Null
         ELSE \E i \in occ :
                /\ \A j \in occ : i <= j
                /\ extractFirstVideoId(h) = IdAt(h, i)
                /\ req[r].pair.youtubeUrl = Str_WatchPrefix \o IdAt(h, i)
                /\ req[r].pair.musicUrl = Str_MusicPrefix \o IdAt(h, i)

\* markup with a too-short candidate and two occurrences was resolved to the
\* first occurrence
C17_FirstOfTwo ==
  \E r \in Req :
    /\ req[r].kind = "video" /\ Resolved(r) /\ req[r].miss /\ req[r].html # Null
    /\ Cardinality({i \in 1..Len(req[r].html) : Occurrence(req[r].html, i)}) = 2
    /\ ~Occurrence(req[r].html, 1) /\ MatchAt(req[r].html, Str_Marker, 1)
    /\ req[r].pair.youtubeUrl
         = Str_WatchPrefix \o <<"a", "b", "c", "_", "d", "e", "f", "-", "h", "i", "j">>

\* C18 (as claimed): two calls of fetchItunesPoster use one cache key only
\* if their titles are equal and their artists are equal after trimming and
\* lower-casing.
C18_CollisionFree ==
  \A r, q \in Req :
    (req[r].kind = "poster" /\ req[q].kind = "poster" /\ req[r].key = req[q].key)
      => /\ Norm(req[r].title) = Norm(req[q].title)
         /\ Norm(req[r].artist) = Norm(req[q].artist)

\* a call was served, as a hit, the poster stored by a call with another
\* title and another artist
C18_SharedEntry ==
  \E r, q \in Req :
    /\ req[r].kind = "poster" /\ req[q].kind = "poster"
    /\ IsDone(r) /\ IsDone(q) /\ q \in req[r].after
    /\ Norm(req[r].title) # Norm(req[q].title)
    /\ Norm(req[r].artist) # Norm(req[q].artist)
    /\ req[q].miss /\ ~req[r].miss /\ req[r].net = 0
    /\ req[r].poster = req[q].poster

\* the entry of key k is the same in the caches c and d: absent in both, or
\* present in both with one content
SameEntry(c, d, k) ==
  /\ Has(c, k) <=> Has(d, k)
  /\ Has(c, k) => c[k] = d[k]

\* every entry of the cache is as it was, except possibly the entry of k
OnlyEntry(c, d, k) ==
  \A x \in (DOMAIN c \cup DOMAIN d) \ {k} : SameEntry(c, d, x)

\* C19: a step of a resolution leaves every entry of its own cache other
\* than the entry of its key as it was, and leaves the other two caches as
\* they were; a step of no resolution changes no cache.
C19_Independence ==
  [][ /\ \A r \in Req :
           req'[r] # req[r] =>
             LET k == req'[r].key
                 kind == req'[r].kind
             IN /\ IF kind = "poster" THEN OnlyEntry(posterCache, posterCache', k)
                                      ELSE posterCache' = posterCache
                /\ IF kind = "podcast" THEN OnlyEntry(podcastCache, podcastCache', k)
                                       ELSE podcastCache' = podcastCache
                /\ IF kind = "video" THEN OnlyEntry(resolveCache, resolveCache', k)
                                     ELSE resolveCache' = resolveCache
      /\ req' = req => UNCHANGED <<posterCache, podcastCache, resolveCache>>
    ]_vars

\* two resolutions that were in flight together, for different keys or in
\* different caches, have both stored their answers
C19_BothStored ==
  \E r, q \in Req :
    /\ r # q /\ Resolved(r) /\ Resolved(q) /\ req[r].miss /\ req[q].miss
    /\ q \notin req[r].after /\ r \notin req[q].after
    /\ req[r].kind # req[q].kind \/ req[r].key # req[q].key
    /\ req[r].poster # Threw /\ req[q].poster # Threw
    /\ StoredAnswer(r) /\ StoredAnswer(q)

\* r is answered from its cache in this step
Hits(r) == Starts(r) /\ req'[r].pc = "done" /\ ~req'[r].miss /\ req'[r].status = 200

\* the entry of k, c[k] before and d[k] after this step, changes only by the
\* write of a resolution of k that completes, or by its removal by a read of
\* k at or after its expiry
ChangedOnlyByWriteOrExpiry(kind, c, d, k) ==
  SameEntry(c, d, k)
    \/ \E r \in Req :
         /\ req'[r].kind = kind /\ req'[r].key = k
         /\ \/ Completes(r) /\ req'[r].miss /\ Has(d, k)
            \/ Starts(r) /\ req'[r].miss /\ Has(c, k) /\ ~Has(d, k) /\ c[k].expiresAt <= now

\* C20: a hit of the podcast cache or the resolve cache serves the stored
\* value before the entry's expiresAt and changes no cache; an entry changes
\* only by the write of a completing resolution of its key, which sets its
\* expiresAt to the time of the write plus the time to live, or by removal
\* on a read at or after its expiresAt.
C20_HitChangesNothing ==
  [][ /\ \A r \in Req :
           /\ (Hits(r) /\ req'[r].kind = "podcast") =>
                /\ podcastCache' = podcastCache
                /\ Has(podcastCache, req'[r].key)
                /\ req'[r].list = podcastCache[req'[r].key].value
                /\ now < podcastCache[req'[r].key].expiresAt
           /\ (Hits(r) /\ req'[r].kind = "video") =>
                /\ resolveCache' = resolveCache
                /\ Has(resolveCache, req'[r].key)
                /\ req'[r].pair.youtubeUrl = resolveCache[req'[r].key].youtubeUrl
                /\ req'[r].pair.musicUrl = resolveCache[req'[r].key].musicUrl
                /\ now < resolveCache[req'[r].key].expiresAt
      /\ \A k \in DOMAIN podcastCache \cup DOMAIN podcastCache' :
           ChangedOnlyByWriteOrExpiry("podcast", podcastCache, podcastCache', k)
      /\ \A k \in DOMAIN resolveCache \cup DOMAIN resolveCache' :
           ChangedOnlyByWriteOrExpiry("video", resolveCache, resolveCache', k)
      /\ \A k \in DOMAIN podcastCache' :
           Written(podcastCache, podcastCache', k)
             => podcastCache'[k].expiresAt = now + PODCAST_CACHE_TTL_MS
      /\ \A k \in DOMAIN resolveCache' :
           Written(resolveCache, resolveCache', k)
             => resolveCache'[k].expiresAt = now + RESOLVE_CACHE_TTL_MS
    ]_vars

\* an entry written at time 0 was served after the clock had advanced, and
\* still expires one time to live after 0
C20_ServedUnchanged ==
  \E r \in Req :
    /\ req[r].kind = "video" /\ Resolved(r) /\ ~req[r].miss
    /\ req[r].readT > 0
    /\ Has(resolveCache, req[r].key)
    /\ resolveCache[req[r].key].expiresAt = RESOLVE_CACHE_TTL_MS
    /\ req[r].pair.youtubeUrl = resolveCache[req[r].key].youtubeUrl

====
